---- MODULE Spec2Model ----
(***************************************************************************)
(* A model of rpctools.jsonrpc: the JSON-RPC client (client.py), its HTTP  *)
(* transports (transport.py), the thread-local connection pool (pool.py),  *)
(* the certificate-validating HTTPS connection (ssl_wrapper.py) and the    *)
(* exception hierarchy (exc.py).                                           *)
(*                                                                         *)
(* Strings that the code inspects character by character (host names,      *)
(* certificate host globs) are sequences of one-character strings.         *)
(***************************************************************************)
EXTENDS Integers, Sequences, FiniteSets, TLC

VARIABLES
    proxy,      \* the ServerProxy instance: its fields, its transport, its id
    pool,       \* pool.connections of every execution context (thread-local)
    nconn,      \* number of connection objects constructed so far
    nreq,       \* number of Transport.request calls made so far
    envelopes,  \* the ids of the envelopes built by proxy._request, in order
    failed,     \* the connections an exchange has failed on: id, thread, host,
                \* and the type of the error
    last,       \* the operation that has just ended, until its caller goes on
    vcert,      \* hostname validation: the certificate handed to the validator
    vhostname,  \* hostname validation: the hostname handed to the validator
    vdone,      \* hostname validation: whether the validator has run
    vresult,    \* hostname validation: what the validator returned
    ctor,       \* the arguments the ServerProxy constructor was called with
    stats,      \* per thread and host: pooled connections created, entries deleted
    inflight    \* per thread: the request it is in the middle of, if any

vars == <<proxy, pool, nconn, nreq, envelopes, failed, last, vcert, vhostname, vdone, vresult,
          ctor, stats, inflight>>

(***************************************************************************)
(* Bounds of the model.                                                    *)
(***************************************************************************)
MaxPatLen == 3      \* longest host glob of a certificate
MaxHostLen == 3     \* longest hostname handed to the validator
MaxRequests == 2    \* transport requests per behaviour
MaxThreadRequests == 3  \* transport requests per behaviour of interleaved threads

(***************************************************************************)
(* ssl_wrapper.py: certificate hostname validation                         *)
(***************************************************************************)

\* str.lower() on the characters the model uses
Lower(c) ==
    CASE c = "A" -> "a"
      [] c = "B" -> "b"
      [] c = "DNS" -> "dns"
      [] c = "commonName" -> "commonname"
      [] c = "CommonName" -> "commonname"
      [] c = "IP Address" -> "ip address"
      [] c = "organizationName" -> "organizationname"
      [] c = "HTTP" -> "http"
      [] c = "HTTPS" -> "https"
      [] c = "Content-Type" -> "content-type"
      [] c = "CONTENT-TYPE" -> "content-type"
      [] c = "User-Agent" -> "user-agent"
      [] c = "Content-Length" -> "content-length"
      [] c = "Connection" -> "connection"
      [] c = "Authorization" -> "authorization"
      [] OTHER -> c

\* the sequence s with f applied to every element
SeqMap(f(_), s) == [i \in 1..Len(s) |-> f(s[i])]

\* the subsequence of the elements of s satisfying keep
RECURSIVE SeqFilter(_, _)
SeqFilter(keep(_), s) ==
    IF s = <<>> THEN <<>>
    ELSE IF keep(Head(s)) THEN <<Head(s)>> \o SeqFilter(keep, Tail(s))
    ELSE SeqFilter(keep, Tail(s))

\* A mutation of GetValidHostsForCert: the common names are candidates
\* even when the certificate has a subjectAltName.
GetValidHostsForCertWithCN(cert) ==
    LET san == IF cert.hasSAN
               THEN SeqMap(LAMBDA x : x[2],
                           SeqFilter(LAMBDA x : Lower(x[1]) = "dns", cert.subjectAltName))
               ELSE <<>>
    IN  san \o SeqMap(LAMBDA x : x[1][2],
                      SeqFilter(LAMBDA x : Lower(x[1][1]) = "commonname", cert.subject))

\* _GetValidHostsForCert: the host globs of a certificate
GetValidHostsForCert(cert) ==
    IF cert.hasSAN
    THEN SeqMap(LAMBDA x : x[2],
                SeqFilter(LAMBDA x : Lower(x[1]) = "dns", cert.subjectAltName))
    ELSE SeqMap(LAMBDA x : x[1][2],
                SeqFilter(LAMBDA x : Lower(x[1][1]) = "commonname", cert.subject))

\* host.replace('.', '\.').replace('*', '[^.]*'): the regular expression of
\* a host glob, as a sequence of regular-expression items
HostRe(host) ==
    SeqMap(LAMBDA c : CASE c = "." -> "\\."
                        [] c = "*" -> "[^.]*"
                        [] OTHER -> c,
           host)

\* A mutation of ReSearch: the item of a * matches any run of characters.
RECURSIVE ReSearchStarAny(_, _)
ReSearchStarAny(re, s) ==
    IF re = <<>> THEN s = <<>>
    ELSE IF Head(re) = "[^.]*"
         THEN \/ ReSearchStarAny(Tail(re), s)
              \/ s # <<>> /\ ReSearchStarAny(re, Tail(s))
    ELSE IF Head(re) = "\\."
         THEN s # <<>> /\ Head(s) = "." /\ ReSearchStarAny(Tail(re), Tail(s))
    ELSE s # <<>> /\ Lower(Head(s)) = Lower(Head(re)) /\ ReSearchStarAny(Tail(re), Tail(s))

\* re.search('^%s$' % host_re, hostname, re.I) for the items HostRe produces
RECURSIVE ReSearch(_, _)
ReSearch(re, s) ==
    IF re = <<>> THEN s = <<>>
    ELSE IF Head(re) = "[^.]*"
         THEN \/ ReSearch(Tail(re), s)
              \/ s # <<>> /\ Head(s) # "." /\ ReSearch(re, Tail(s))
    ELSE IF Head(re) = "\\."
         THEN s # <<>> /\ Head(s) = "." /\ ReSearch(Tail(re), Tail(s))
    ELSE s # <<>> /\ Lower(Head(s)) = Lower(Head(re)) /\ ReSearch(Tail(re), Tail(s))

\* _ValidateCertificateHostname
ValidateCertificateHostname(cert, hostname) ==
    LET hosts == GetValidHostsForCert(cert)
    IN  \E i \in 1..Len(hosts) : ReSearch(HostRe(hosts[i]), hostname)

(***************************************************************************)
(* Values                                                                  *)
(***************************************************************************)
None == "None"
GLOBAL_DEFAULT_TIMEOUT == "socket._GLOBAL_DEFAULT_TIMEOUT"

Contexts == {"t1", "t2"}                       \* threads: pool is a threading.local

\* A mutation of ThreadLocal: pool is an object of its own, every thread
\* sees the same connections dict.
ThreadLocalShared(ctx) == "t1"

\* pool.connections in thread ctx: the dict that Pool.__init__ made for ctx
ThreadLocal(ctx) == ctx
HostA == <<"a", ".", "a">>
HostB == <<"b", ".", "a">>
Hosts == {HostA, HostB}
Handler == <<"/", "r">>

\* a dict as a function; d[k] = v
Put(d, k, v) == [x \in DOMAIN d \cup {k} |-> IF x = k THEN v ELSE d[x]]
EmptyDict == [x \in {} |-> None]

\* the certificates a server may present in the handshake
SanCert(pat) == [hasSAN |-> TRUE, subjectAltName |-> << <<"DNS", pat>> >>,
                 subject |-> << << <<"commonName", HostA>> >> >>]
CnCert(pat) == [hasSAN |-> FALSE, subjectAltName |-> <<>>,
                subject |-> << << <<"commonName", pat>> >> >>]
ServerCerts == { SanCert(HostB), CnCert(HostA) }

\* exceptions: the class, the arguments given to Exception.__init__ (what
\* repr() shows) and the attributes set on the instance
NoExc == [type |-> None, args |-> <<>>, attrs |-> EmptyDict]
Exc(type, args, attrs) == [type |-> type, args |-> args, attrs |-> attrs]

\* the base classes of every exception class the code raises or catches
Bases(cls) ==
    CASE cls = "JsonRpcError" -> {"Exception"}
      [] cls = "ConnectionError" -> {"JsonRpcError"}
      [] cls = "ProtocolError" -> {"JsonRpcError"}
      [] cls = "ResponseError" -> {"JsonRpcError"}
      [] cls = "Fault" -> {"Exception"}
      [] cls = "InvalidCertificateException" -> {"HTTPException"}
      [] cls = "BadStatusLine" -> {"HTTPException"}
      [] cls = "IncompleteRead" -> {"HTTPException"}
      [] cls = "HTTPException" -> {"Exception"}
      [] cls = "ssl.SSLError" -> {"socket.error"}
      [] cls = "socket.error" -> {"Exception"}
      [] cls = "KeyError" -> {"Exception"}
      [] cls = "TypeError" -> {"Exception"}
      [] OTHER -> {}

RECURSIVE IsSubclass(_, _)
IsSubclass(cls, base) ==
    \/ cls = base
    \/ \E b \in Bases(cls) : IsSubclass(b, base)

\* repr(x) of an exception: the class name and the constructor arguments
Repr(x) == [class |-> x.type, args |-> x.args]

(***************************************************************************)
(* ssl_wrapper.py and httplib: connections                                 *)
(***************************************************************************)
NoConn == [id |-> 0]

\* the element of a set of one element: a step's outcome is computed once and
\* named, as the code's local variables are
Only(S) == CHOOSE r \in S : TRUE

\* httplib.HTTPConnection(host, timeout=timeout)
HTTPConnection(id, host, timeout) ==
    [id |-> id, class |-> "HTTPConnection", host |-> host, timeout |-> timeout,
     key_file |-> None, cert_file |-> None, ca_certs |-> None,
     validate_cert_hostname |-> FALSE, cert_reqs |-> None,
     sock |-> None, peercert |-> None, written |-> 0]

\* CertValidatingHTTPSConnection.__init__ (no timeout is handed down by its
\* callers, so HTTPConnection.__init__ keeps the global default)
CertValidatingHTTPSConnection(id, host, key_file, cert_file, ca_certs, validate_cert_hostname) ==
    [id |-> id, class |-> "CertValidatingHTTPSConnection", host |-> host,
     timeout |-> GLOBAL_DEFAULT_TIMEOUT,
     key_file |-> key_file, cert_file |-> cert_file, ca_certs |-> ca_certs,
     validate_cert_hostname |-> validate_cert_hostname,
     cert_reqs |-> IF ca_certs # None THEN "CERT_REQUIRED" ELSE "CERT_NONE",
     sock |-> None, peercert |-> None, written |-> 0]

\* self.host.split(':', 0)[0]: with maxsplit 0 nothing is split off
SplitHost(host) == host

\* A mutation of HTTPSConnect: the hostname is not checked.
HTTPSConnectNoCheck(conn, io) ==
    IF io.connect # "ok"
    THEN [conn |-> conn, exc |-> Exc(io.connect, <<>>, EmptyDict)]
    ELSE [conn |-> [conn EXCEPT !.sock = "open", !.peercert = io.peercert], exc |-> NoExc]

\* CertValidatingHTTPSConnection.connect
HTTPSConnect(conn, io) ==
    IF io.connect # "ok"
    THEN \* sock.connect or ssl.wrap_socket raised: self.sock is not assigned
         [conn |-> conn, exc |-> Exc(io.connect, <<>>, EmptyDict)]
    ELSE LET c == [conn EXCEPT !.sock = "open", !.peercert = io.peercert]
             hostname == SplitHost(c.host)
         IN  IF /\ c.cert_reqs = "CERT_REQUIRED"
                /\ c.validate_cert_hostname
                /\ ~ValidateCertificateHostname(c.peercert, hostname)
             THEN [conn |-> c,
                   exc |-> Exc("InvalidCertificateException", <<>>,
                               [host |-> hostname, cert |-> c.peercert,
                                reason |-> "hostname mismatch"])]
             ELSE [conn |-> c, exc |-> NoExc]

\* httplib.HTTPConnection.connect
HTTPConnect(conn, io) ==
    IF io.connect # "ok"
    THEN [conn |-> conn, exc |-> Exc(io.connect, <<>>, EmptyDict)]
    ELSE [conn |-> [conn EXCEPT !.sock = "open"], exc |-> NoExc]

\* no response; msg holds the Set-Cookie headers of a response, in order
NoResponse == [status |-> 0, reason |-> None, msg |-> <<>>]

\* A mutation of ConnExchange: a request whose status line cannot be read is
\* written a second time.
ConnExchangeResend(conn, io) ==
    LET Exchange(opened) ==
            IF opened.exc # NoExc
            THEN [conn |-> opened.conn, exc |-> opened.exc, response |-> NoResponse,
                  posts |-> 0]
            ELSE IF io.send # "ok"
            THEN [conn |-> opened.conn, exc |-> Exc(io.send, <<>>, EmptyDict),
                  response |-> NoResponse, posts |-> 0]
            ELSE IF io.respExc # None
            THEN [conn |-> [opened.conn EXCEPT !.written = @ + 2],
                  exc |-> Exc(io.respExc, <<>>, EmptyDict),
                  response |-> NoResponse, posts |-> 2]
            ELSE [conn |-> [opened.conn EXCEPT !.written = @ + 1], exc |-> NoExc,
                  response |-> [status |-> io.status, reason |-> io.reason,
                                        msg |-> io.msg],
                  posts |-> 1]
    IN  Only({ Exchange(opened) :
               opened \in { IF conn.sock # None THEN [conn |-> conn, exc |-> NoExc]
                            ELSE IF conn.class = "CertValidatingHTTPSConnection"
                                 THEN HTTPSConnect(conn, io)
                                 ELSE HTTPConnect(conn, io) } })

\* conn.request("POST", handler, body, headers); conn.getresponse(), as far as
\* the first exception: the socket is opened on demand, the request is
\* written, the status line is read
ConnExchange(conn, io) ==
    LET Exchange(opened) ==
            IF opened.exc # NoExc
            THEN [conn |-> opened.conn, exc |-> opened.exc, response |-> NoResponse,
                  posts |-> 0]
            ELSE IF io.send # "ok"
            THEN [conn |-> opened.conn, exc |-> Exc(io.send, <<>>, EmptyDict),
                  response |-> NoResponse, posts |-> 0]
            ELSE LET c == [opened.conn EXCEPT !.written = @ + 1]
                 IN  IF io.respExc # None
                     THEN [conn |-> c, exc |-> Exc(io.respExc, <<>>, EmptyDict),
                           response |-> NoResponse, posts |-> 1]
                     ELSE [conn |-> c, exc |-> NoExc,
                           response |-> [status |-> io.status, reason |-> io.reason,
                                        msg |-> io.msg],
                           posts |-> 1]
    IN  Only({ Exchange(opened) :
               opened \in { IF conn.sock # None THEN [conn |-> conn, exc |-> NoExc]
                            ELSE IF conn.class = "CertValidatingHTTPSConnection"
                                 THEN HTTPSConnect(conn, io)
                                 ELSE HTTPConnect(conn, io) } })

(***************************************************************************)
(* transport.py and pool.py: transports                                    *)
(***************************************************************************)
PooledClasses == {"TLSConnectionPoolTransport", "TLSConnectionPoolSafeTransport"}
SafeClasses == {"SafeTransport", "TLSConnectionPoolSafeTransport"}

\* Transport.__init__ and SafeTransport.__init__, for each of the four classes
NewTransport(cls, key_file, cert_file, ca_certs, validate_cert_hostname, timeout) ==
    [class |-> cls,
     timeout |-> IF timeout # None THEN timeout ELSE GLOBAL_DEFAULT_TIMEOUT,
     key_file |-> IF cls \in SafeClasses THEN key_file ELSE None,
     cert_file |-> IF cls \in SafeClasses THEN cert_file ELSE None,
     ca_certs |-> IF cls \in SafeClasses THEN ca_certs ELSE None,
     validate_cert_hostname |-> IF cls \in SafeClasses THEN validate_cert_hostname ELSE FALSE]

\* Transport.connect and SafeTransport.connect: a new connection object
TransportConnect(tr, host, id) ==
    IF tr.class \in SafeClasses
    THEN CertValidatingHTTPSConnection(id, host, tr.key_file, tr.cert_file,
                                       tr.ca_certs, tr.validate_cert_hostname)
    ELSE HTTPConnection(id, host, tr.timeout)

\* A mutation of Connect: the pooled classes make a connection for every
\* request and put it in the pool.
ConnectAlwaysNew(tr, connections, host, id) ==
    [connections |-> IF tr.class \in PooledClasses
                     THEN [connections EXCEPT ![host] = TransportConnect(tr, host, id)]
                     ELSE connections,
     conn |-> TransportConnect(tr, host, id), created |-> TRUE]

\* A mutation of Connect: the pooled classes put no connection in the pool.
ConnectUncached(tr, connections, host, id) ==
    [connections |-> connections, conn |-> TransportConnect(tr, host, id), created |-> TRUE]

\* self.connect(host): TLSConnectionPoolMixin.connect for the pooled classes.
\* connections is pool.connections of the calling thread.
Connect(tr, connections, host, id) ==
    IF tr.class \in PooledClasses
    THEN IF connections[host] = NoConn
         THEN LET conn == TransportConnect(tr, host, id)
              IN  [connections |-> [connections EXCEPT ![host] = conn],
                   conn |-> conn, created |-> TRUE]
         ELSE [connections |-> connections, conn |-> connections[host],
               created |-> FALSE]
    ELSE [connections |-> connections, conn |-> TransportConnect(tr, host, id),
          created |-> TRUE]

\* A mutation of HandleConnectionError: the stub of Transport is used by the
\* pooled classes too.
HandleConnectionErrorStub(tr, connections, host) ==
    [connections |-> connections, exc |-> NoExc]

\* self.handle_connection_error(host, x)
HandleConnectionError(tr, connections, host) ==
    IF tr.class \in PooledClasses
    THEN IF connections[host] = NoConn
         THEN [connections |-> connections,
               exc |-> Exc("KeyError", <<host>>, EmptyDict)]
         ELSE [connections |-> [connections EXCEPT ![host] = NoConn], exc |-> NoExc]
    ELSE [connections |-> connections, exc |-> NoExc]

\* A mutation of AddHeaders: the caller's content type is looked up under
\* the key Content-Type as it is written.
AddHeadersCaseSensitive(tr, headers, body) ==
    LET keep == IF tr.class \in PooledClasses
                THEN Put(headers, "Connection", "keep-alive") ELSE headers
        ua == Put(keep, "User-Agent", "JSON-RPC Client")
        ct == IF "Content-Type" \notin DOMAIN keep
              THEN Put(ua, "Content-Type", "application/json") ELSE ua
    IN  Put(ct, "Content-Length", IF body.isNone THEN 0 ELSE body.len)

\* the headers Transport.request adds to the caller's dict
AddHeaders(tr, headers, body) ==
    LET keep == IF tr.class \in PooledClasses
                THEN Put(headers, "Connection", "keep-alive") ELSE headers
        header_keys_lower == {Lower(k) : k \in DOMAIN keep}
        ua == Put(keep, "User-Agent", "JSON-RPC Client")
        ct == IF "content-type" \notin header_keys_lower
              THEN Put(ua, "Content-Type", "application/json") ELSE ua
    IN  Put(ct, "Content-Length", IF body.isNone THEN 0 ELSE body.len)

\* A mutation of IsTransportException: only socket errors are caught.
IsTransportExceptionSocketOnly(x) == IsSubclass(x.type, "socket.error")

\* the exceptions Transport.request catches
IsTransportException(x) ==
    IsSubclass(x.type, "socket.error") \/ IsSubclass(x.type, "HTTPException")

\* A mutation of TransportRequest: a status other than 200 is handled as a
\* connection error.
TransportRequestStatusEvicts(tr, connections, host, handler, body, headers, io, id) ==
    LET Respond(c, hdrs, x) ==
            LET after == IF tr.class \in PooledClasses /\ c.connections[host].id = x.conn.id
                         THEN [c.connections EXCEPT ![host] = x.conn] ELSE c.connections
                h == HandleConnectionError(tr, after, host)
            IN  IF x.exc = NoExc /\ x.response.status = 200
                THEN [connections |-> after, conn |-> x.conn, created |-> c.created,
                      exc |-> NoExc, cause |-> NoExc, response |-> x.response,
                      headers |-> hdrs, posts |-> x.posts]
                ELSE [connections |-> h.connections, conn |-> x.conn, created |-> c.created,
                      exc |-> Exc("ConnectionError",
                                  <<[host |-> host, cause |-> Repr(x.exc)]>>, EmptyDict),
                      cause |-> x.exc, response |-> NoResponse,
                      headers |-> hdrs, posts |-> x.posts]
    IN  Only(UNION { { Respond(c, hdrs, x) : x \in {ConnExchange(c.conn, io)} } :
                     c \in {Connect(tr, connections, host, id)},
                     hdrs \in {AddHeaders(tr, headers, body)} })

\* Transport.request lines 85-97, with c the outcome of self.connect(host),
\* hdrs the headers and x the outcome of conn.request and conn.getresponse
TransportRespond(tr, c, hdrs, x, host, handler) ==
    LET \* the pool holds the connection object itself, if it holds it
        after == IF tr.class \in PooledClasses /\ c.connections[host].id = x.conn.id
                 THEN [c.connections EXCEPT ![host] = x.conn] ELSE c.connections
        h == HandleConnectionError(tr, after, host)
    IN  IF x.exc = NoExc
        THEN IF x.response.status # 200
             THEN [connections |-> after, conn |-> x.conn, created |-> c.created,
                   exc |-> Exc("ProtocolError",
                               <<host \o handler, x.response.status,
                                 x.response.reason, hdrs>>,
                               [url |-> host \o handler,
                                errcode |-> x.response.status,
                                errmsg |-> x.response.reason, headers |-> hdrs]),
                   cause |-> NoExc, response |-> NoResponse,
                   headers |-> hdrs, posts |-> x.posts]
             ELSE [connections |-> after, conn |-> x.conn, created |-> c.created,
                   exc |-> NoExc, cause |-> NoExc, response |-> x.response,
                   headers |-> hdrs, posts |-> x.posts]
        ELSE IF IsTransportException(x.exc)
        THEN IF h.exc # NoExc
             THEN [connections |-> h.connections, conn |-> x.conn,
                   created |-> c.created,
                   exc |-> h.exc, cause |-> x.exc, response |-> NoResponse,
                   headers |-> hdrs, posts |-> x.posts]
             ELSE [connections |-> h.connections, conn |-> x.conn,
                   created |-> c.created,
                   exc |-> Exc("ConnectionError",
                               <<[host |-> host, cause |-> Repr(x.exc)]>>, EmptyDict),
                   cause |-> x.exc, response |-> NoResponse,
                   headers |-> hdrs, posts |-> x.posts]
        ELSE [connections |-> after, conn |-> x.conn, created |-> c.created,
              exc |-> x.exc, cause |-> x.exc, response |-> NoResponse,
              headers |-> hdrs, posts |-> x.posts]

\* Transport.request (through TLSConnectionPoolMixin.request for the pooled
\* classes). The result holds the pool of the calling thread afterwards, the
\* connection object used, the exception raised (exc) and the exception
\* caught inside (cause), the response, the caller's headers dict as mutated
\* and the number of requests written.
TransportRequest(tr, connections, host, handler, body, headers, io, id) ==
    Only(UNION { { TransportRespond(tr, c, hdrs, x, host, handler) :
                     x \in {ConnExchange(c.conn, io)} } :
                 c \in {Connect(tr, connections, host, id)},
                 hdrs \in {AddHeaders(tr, headers, body)} })

(***************************************************************************)
(* client.py: ServerProxy                                                  *)
(***************************************************************************)
PreviewLimit == 256     \* len(r) > 256
PreviewKeep == 255      \* r[0:255]
EllipsisLen == 3        \* len('...')

\* A uri is the sequence of its pieces: a word for the scheme, the port, a
\* user name, a password, a path segment or a query; one-character strings for
\* the host name and the delimiters.
UriOf(scheme, userinfo, host, port, path, query) ==
    scheme \o <<":", "/", "/">> \o userinfo \o host \o port \o path \o query

\* the pieces a scheme may consist of (urlparse.scheme_chars)
SchemeChars == {"http", "https", "HTTP", "HTTPS", "ftp", "gopher", "a", "A", "b", "B", ".", "80"}

\* s.find(t) and s.rfind(t), counting from 1: 0 if t is not in s
Find(s, t) ==
    IF \E i \in 1..Len(s) : s[i] = t
    THEN CHOOSE i \in 1..Len(s) : s[i] = t /\ \A j \in 1..(i - 1) : s[j] # t
    ELSE 0
RFind(s, t) ==
    IF \E i \in 1..Len(s) : s[i] = t
    THEN CHOOSE i \in 1..Len(s) : s[i] = t /\ \A j \in (i + 1)..Len(s) : s[j] # t
    ELSE 0
Take(s, n) == SubSeq(s, 1, n)
Drop(s, n) == SubSeq(s, n + 1, Len(s))
\* a string of one piece is the piece
Word(s) == IF Len(s) = 1 THEN s[1] ELSE s

\* urlparse(uri), for uris without params and fragment: scheme, netloc,
\* path, query and the hostname, username and password attributes; an
\* attribute that is None is the empty string here, both are false as a
\* condition
Urlparse(url) ==
    LET i == Find(url, ":")
        isScheme == i > 1 /\ \A j \in 1..(i - 1) : url[j] \in SchemeChars
        scheme == IF isScheme THEN Word(SeqMap(Lower, Take(url, i - 1))) ELSE ""
        rest == IF isScheme THEN Drop(url, i) ELSE url
        hasNetloc == Len(rest) >= 2 /\ rest[1] = "/" /\ rest[2] = "/"
        tail == IF hasNetloc THEN Drop(rest, 2) ELSE rest
        delims == { j \in 1..Len(tail) : tail[j] \in {"/", "?"} }
        k == IF delims = {} THEN Len(tail) + 1
             ELSE CHOOSE j \in delims : \A j2 \in delims : j <= j2
        netloc == IF hasNetloc THEN Take(tail, k - 1) ELSE <<>>
        url2 == IF hasNetloc THEN Drop(tail, k - 1) ELSE rest
        q == Find(url2, "?")
        at == RFind(netloc, "@")
        userinfo == Take(netloc, at - 1)
        hostport == Drop(netloc, at)
        colon == Find(hostport, ":")
        ucolon == Find(userinfo, ":")
    IN  [scheme |-> scheme,
         netloc |-> netloc,
         path |-> IF q = 0 THEN url2 ELSE Take(url2, q - 1),
         query |-> IF q = 0 THEN <<>> ELSE Drop(url2, q),
         hostname |-> IF hostport = <<>> THEN <<>>
                      ELSE SeqMap(Lower, IF colon = 0 THEN hostport
                                         ELSE Take(hostport, colon - 1)),
         username |-> IF at = 0 THEN <<>>
                      ELSE IF ucolon = 0 THEN userinfo ELSE Take(userinfo, ucolon - 1),
         password |-> IF at = 0 \/ ucolon = 0 THEN <<>> ELSE Drop(userinfo, ucolon)]

\* no ServerProxy instance
NoProxy == [type |-> None]

\* A mutation of SupportedScheme: every scheme is accepted.
SupportedSchemeAny(type) == TRUE

\* self.type in ("http", "https")
SupportedScheme(type) == type \in {"http", "https"}

\* ServerProxy.__init__ with the arguments a. Gives the exception raised, or
\* the instance.
ServerProxyInit(a) ==
    LET Build(parsed_uri) ==
            LET type == parsed_uri.scheme
                auth == parsed_uri.username # <<>> /\ parsed_uri.password # <<>>
                extra_headers ==
                    IF auth
                    THEN Put(a.extra_headers, "Authorization",
                             [basic |-> parsed_uri.username \o <<":">> \o parsed_uri.password])
                    ELSE a.extra_headers
            IN  IF ~SupportedScheme(type)
                THEN [exc |-> Exc("JsonRpcError",
                                  <<[msg |-> "unsupported JSON-RPC uri", uri |-> a.uri]>>,
                                  EmptyDict),
                      proxy |-> NoProxy]
                ELSE [exc |-> NoExc,
                      proxy |->
                        [type |-> type, handler |-> parsed_uri.path,
                         host |-> parsed_uri.hostname,
                         key_file |-> a.key_file, cert_file |-> a.cert_file,
                         ca_certs |-> a.ca_certs,
                         validate_cert_hostname |-> a.validate_cert_hostname,
                         transport |->
                            IF a.pool_connections
                            THEN IF type = "https"
                                 THEN NewTransport("TLSConnectionPoolSafeTransport",
                                                   None, None, None, TRUE, a.timeout)
                                 ELSE NewTransport("TLSConnectionPoolTransport",
                                                   None, None, None, TRUE, a.timeout)
                            ELSE IF type = "https"
                                 THEN NewTransport("SafeTransport", a.key_file, a.cert_file,
                                                   a.ca_certs, a.validate_cert_hostname, None)
                                 ELSE NewTransport("Transport", None, None, None, TRUE,
                                                   a.timeout),
                         extra_headers |-> extra_headers,
                         id |-> 0]]
    IN  Only({ Build(parsed_uri) : parsed_uri \in {Urlparse(a.uri)} })

\* CookieAwareServerProxy(request_cookies=..., **a), of a class or instance
\* whose auto_add_cookies is as given: CookieKeeperMixin.__init__ sets the
\* cookie dicts and goes on with ServerProxy.__init__
CookieAwareServerProxy(a, request_cookies, auto_add_cookies) ==
    LET Keep(r) ==
            IF r.exc # NoExc THEN r
            ELSE [exc |-> NoExc,
                  proxy |-> [f \in DOMAIN r.proxy \cup {"response_cookies", "request_cookies",
                                                        "auto_add_cookies"} |->
                               CASE f = "response_cookies" -> EmptyDict
                                 [] f = "request_cookies" -> request_cookies
                                 [] f = "auto_add_cookies" -> auto_add_cookies
                                 [] OTHER -> r.proxy[f]]]
    IN  Only({ Keep(r) : r \in {ServerProxyInit(a)} })

\* len(str(n)) for the ids the model reaches
Digits(n) == IF n < 10 THEN 1 ELSE 2

\* args if args else kwargs
Params(args, kwargs) ==
    IF args # <<>> THEN [isDict |-> FALSE, items |-> args]
    ELSE [isDict |-> TRUE, items |-> kwargs]

\* len(json.dumps(params)) for one-digit numbers and one-letter keys:
\* '[1, 2]' and '{"k": 1}'
ParamsLen(params) ==
    LET n == Cardinality(DOMAIN params.items)
    IN  IF n = 0 THEN 2
        ELSE IF params.isDict THEN 2 + 6 * n + 2 * (n - 1)
        ELSE 2 + n + 2 * (n - 1)

\* len of the method names the model uses
StrLen(s) == CASE s = "ping" -> 4 [] OTHER -> 0

\* json.dumps(data): the text stands for itself, its length is computed:
\* '{"id": 1, "method": "ping", "params": []}'
JsonDumps(data) ==
    [isNone |-> FALSE, data |-> data,
     len |-> 2 + (4 + 2 + Digits(data.id)) + 2 + (8 + 2 + StrLen(data.method) + 2)
               + 2 + (8 + 2 + ParamsLen(data.params))]
NoBody == [isNone |-> TRUE, data |-> None, len |-> 0]

\* the message preview of client.py lines 205-207, as the length of r
Preview(reprlen) ==
    IF reprlen > PreviewLimit THEN PreviewKeep + EllipsisLen ELSE reprlen

\* A mutation of Truthy: no error value counts as an error.
TruthyNever(error) == FALSE

\* bool(decoded['error']) for the error values the model uses
Truthy(error) == error.kind \notin {"null", "empty"}

\* client.py lines 203-216: the checks on the decoded value p. Gives the
\* exception raised, or the returned result.
CheckEnvelope(methodname, p) ==
    IF p.json \in {"null", "number"}
    THEN \* 'result' in decoded, on a value that is no container
         [exc |-> Exc("TypeError", <<"argument of type is not iterable">>, EmptyDict),
          result |-> None]
    ELSE IF ~("result" \in p.keys \/ "error" \in p.keys)
    THEN [exc |-> Exc("ResponseError",
                      <<[msg |-> "Malformed JSON-RPC response to", method |-> methodname,
                         preview |-> Preview(p.reprlen)]>>, EmptyDict),
          result |-> None]
    ELSE IF p.json = "array"
    THEN [exc |-> Exc("TypeError", <<"list indices must be integers">>, EmptyDict),
          result |-> None]
    ELSE IF "error" \in p.keys /\ Truthy(p.error)
    THEN IF p.error.kind # "object"
         THEN [exc |-> Exc("TypeError", <<"string indices must be integers">>, EmptyDict),
               result |-> None]
         ELSE IF "code" \notin p.error.keys
         THEN [exc |-> Exc("KeyError", <<"code">>, EmptyDict), result |-> None]
         ELSE IF "message" \notin p.error.keys
         THEN [exc |-> Exc("KeyError", <<"message">>, EmptyDict), result |-> None]
         ELSE [exc |-> Exc("Fault", <<p.error.message>>,
                           [errcode |-> p.error.code, errmsg |-> p.error.message]),
               result |-> None]
    ELSE IF "result" \notin p.keys
    THEN [exc |-> Exc("ResponseError",
                      <<[msg |-> "Malformed JSON-RPC response", method |-> None,
                         preview |-> p.reprlen]>>, EmptyDict),
          result |-> None]
    ELSE [exc |-> NoExc, result |-> p.result]

\* A mutation of DecodeResponse: a decoded None gets no special case.
DecodeResponseNullChecked(methodname, p) ==
    IF p.json = "invalid"
    THEN [exc |-> Exc("ResponseError", <<"Unable to parse response data as JSON">>, EmptyDict),
          result |-> None]
    ELSE CheckEnvelope(methodname, p)

\* client.py lines 192-216: json.loads(data) and the checks on the decoded
\* value p. Gives the exception raised, or the returned result.
DecodeResponse(methodname, p) ==
    IF p.json = "invalid"
    THEN [exc |-> Exc("ResponseError", <<"Unable to parse response data as JSON">>, EmptyDict),
          result |-> None]
    ELSE IF p.json = "null" THEN [exc |-> NoExc, result |-> None]
    ELSE CheckEnvelope(methodname, p)

\* c is an instance of a class with CookieKeeperMixin
IsCookieKeeper(c) == "request_cookies" \in DOMAIN c

\* dict a after a.update(b)
Update(a, b) == [k \in DOMAIN a \cup DOMAIN b |-> IF k \in DOMAIN b THEN b[k] ELSE a[k]]

\* A mutation of PrepareRequest: the hook leaves the headers alone.
PrepareRequestStub(c, data, headers) == headers

\* self._prepare_request(data, headers): pass in ServerProxy; with
\* CookieKeeperMixin the cookies to send are put in the Cookie header, each
\* over the one before. Gives the headers afterwards. The cookies of the
\* model have one name, so the loop's last cookie is that one.
PrepareRequest(c, data, headers) ==
    IF ~IsCookieKeeper(c) THEN headers
    ELSE LET received == IF c.auto_add_cookies /\ c.response_cookies # EmptyDict
                         THEN c.response_cookies ELSE EmptyDict
             req_cookies == IF c.request_cookies # EmptyDict
                            THEN Update(received, c.request_cookies) ELSE received
         IN  IF req_cookies = EmptyDict THEN headers
             ELSE Only({ Put(headers, "Cookie", [name |-> n, value |-> req_cookies[n]]) :
                         n \in {CHOOSE k \in DOMAIN req_cookies : TRUE} })

\* self._handle_response(response): pass in ServerProxy; with
\* CookieKeeperMixin the Set-Cookie headers of the response, the last one of
\* a name, become response_cookies. Gives the client afterwards.
HandleResponse(c, response) ==
    IF IsCookieKeeper(c) /\ Len(response.msg) > 0
    THEN [c EXCEPT !.response_cookies =
            [n \in { response.msg[i].name : i \in 1..Len(response.msg) } |->
                response.msg[CHOOSE i \in 1..Len(response.msg) :
                                /\ response.msg[i].name = n
                                /\ \A j \in (i + 1)..Len(response.msg) :
                                      response.msg[j].name # n].value]]
    ELSE c

\* A mutation of ProxyRequest: the id is consumed only when the transport
\* returns a response.
ProxyRequestIdOnSuccess(c, connections, methodname, params, io, connid) ==
    LET id == c.id + 1
        data == [id |-> id, method |-> methodname, params |-> params]
        d == DecodeResponse(methodname, io.payload)
        sent == <<"id", "prepare", "dumps", "exchange">>
        Finish(t) ==
            IF t.exc # NoExc
            THEN [proxy |-> [c EXCEPT !.extra_headers = t.headers], t |-> t, data |-> data,
                  exc |-> t.exc, result |-> None, steps |-> sent]
            ELSE [proxy |-> HandleResponse([c EXCEPT !.id = id, !.extra_headers = t.headers],
                                           t.response),
                  t |-> t, data |-> data,
                  exc |-> IF io.readExc # None THEN Exc(io.readExc, <<>>, EmptyDict)
                          ELSE d.exc,
                  result |-> IF io.readExc # None THEN None ELSE d.result,
                  steps |-> sent \o (IF io.readExc # None THEN <<"handle", "read">>
                                     ELSE <<"handle", "read", "loads">>)]
    IN  Only({ Finish(t) :
               t \in {TransportRequest(c.transport, connections, c.host, c.handler,
                                       JsonDumps(data),
                                       PrepareRequest(c, data, c.extra_headers), io, connid)} })

\* ServerProxy._request on client c from the thread whose pool is connections.
\* Gives the client and the pool afterwards, how the call ended, and the
\* steps of _request that were begun, in their order.
ProxyRequest(c, connections, methodname, params, io, connid) ==
    LET id == c.id + 1
        data == [id |-> id, method |-> methodname, params |-> params]
        \* headers is self.extra_headers itself, which the hook works on
        headers == PrepareRequest(c, data, c.extra_headers)
        body == JsonDumps(data)
        d == DecodeResponse(methodname, io.payload)
        \* lines 176-186: the steps up to self.transport.request
        sent == <<"id", "prepare", "dumps", "exchange">>
        \* lines 187-216, with t the outcome of self.transport.request
        Finish(t) ==
            IF t.exc # NoExc
            THEN \* the additions of the hook and of the transport stay
                 [proxy |-> [c EXCEPT !.id = id, !.extra_headers = t.headers], t |-> t,
                  data |-> data, exc |-> t.exc, result |-> None, steps |-> sent]
            ELSE IF io.readExc # None
            THEN \* response.read() raised
                 [proxy |-> HandleResponse([c EXCEPT !.id = id, !.extra_headers = t.headers],
                                           t.response),
                  t |-> t, data |-> data,
                  exc |-> Exc(io.readExc, <<>>, EmptyDict), result |-> None,
                  steps |-> sent \o <<"handle", "read">>]
            ELSE [proxy |-> HandleResponse([c EXCEPT !.id = id, !.extra_headers = t.headers],
                                           t.response),
                  t |-> t, data |-> data, exc |-> d.exc, result |-> d.result,
                  steps |-> sent \o <<"handle", "read", "loads">>]
    IN  Only({ Finish(t) :
               t \in {TransportRequest(c.transport, connections, c.host, c.handler, body,
                                       headers, io, connid)} })

(***************************************************************************)
(* The environment: what the network and the server do during one request  *)
(***************************************************************************)
ErrorObject == [kind |-> "object", keys |-> {"code", "message"}, code |-> 7, message |-> "boom"]
NullError == [kind |-> "null", keys |-> {}, code |-> None, message |-> None]
Payload(json, keys, error, reprlen) ==
    [json |-> json, keys |-> keys, result |-> "value", error |-> error, reprlen |-> reprlen]

\* the decoded response bodies: not JSON, null, a number, an array, objects
\* with and without result and error, of several repr lengths
Payloads ==
    { Payload("invalid", {}, NullError, 0),
      Payload("null", {}, NullError, 4),
      Payload("number", {}, NullError, 1),
      Payload("array", {}, NullError, 2),
      Payload("object", {"result"}, NullError, 20),
      Payload("object", {"error"}, ErrorObject, 40),
      Payload("object", {"result", "error"}, ErrorObject, 60),
      Payload("object", {"result", "error"}, NullError, 35),
      Payload("object", {"error"}, [ErrorObject EXCEPT !.keys = {"code"}], 30) }
    \cup { Payload("object", {}, NullError, n) : n \in {2, 256, 257, 300} }
    \cup { Payload("object", {"error"}, NullError, n) : n \in {15, 300} }

DefaultCert == CnCert(HostA)
Reason(status) == CASE status = 200 -> "OK" [] status = 404 -> "Not Found"
                    [] OTHER -> "Internal Server Error"

\* the exchange in which nothing fails
IoOk == [connect |-> "ok", peercert |-> DefaultCert, send |-> "ok", respExc |-> None,
         status |-> 200, reason |-> Reason(200), readExc |-> None,
         payload |-> Payload("null", {}, NullError, 4), msg |-> <<>>]

\* every exchange, told as far as the step that ends it; the response bodies
\* vary in the exchanges with the default certificate
Scenarios ==
    { [IoOk EXCEPT !.connect = e] : e \in {"socket.error", "ssl.SSLError"} }
    \cup UNION { { [IoOk EXCEPT !.peercert = cert], 
                   [IoOk EXCEPT !.peercert = cert, !.send = "socket.error"] }
           \cup { [IoOk EXCEPT !.peercert = cert, !.respExc = e] :
                    e \in {"socket.error", "BadStatusLine"} }
           \cup { [IoOk EXCEPT !.peercert = cert, !.status = st, !.reason = Reason(st)] :
                    st \in {404, 500} }
           \cup { [IoOk EXCEPT !.peercert = cert, !.readExc = e] :
                    e \in {"socket.error", "IncompleteRead"} }
           : cert \in ServerCerts }
    \cup { [IoOk EXCEPT !.payload = p] : p \in Payloads }
    \cup { [IoOk EXCEPT !.msg = <<[name |-> "sid", value |-> "2"]>>],
           [IoOk EXCEPT !.msg = <<[name |-> "sid", value |-> "2"]>>, !.status = 500,
                        !.reason = Reason(500)] }

\* the exchanges of a request whose response body nobody reads
TransportScenarios == { io \in Scenarios : io.readExc = None /\ io.payload = IoOk.payload }

\* a handshake, and so a peer certificate, happens only when a TLS connection
\* without a socket is used; a plain connection raises no ssl.SSLError
Possible(io, tr, connections, host) ==
    LET handshake == /\ tr.class \in SafeClasses
                     /\ tr.class \in PooledClasses =>
                            \/ connections[host] = NoConn
                            \/ /\ connections[host].sock = None
                               /\ connections[host].class = "CertValidatingHTTPSConnection"
        reuse == /\ tr.class \in PooledClasses
                 /\ connections[host] # NoConn
    IN  /\ ~handshake /\ ~reuse => io.peercert = DefaultCert /\ io.connect # "ssl.SSLError"
        /\ reuse /\ connections[host].sock # None => io.peercert = DefaultCert /\ io.connect = "ok"
        /\ reuse /\ connections[host].class = "HTTPConnection" =>
              io.peercert = DefaultCert /\ io.connect # "ssl.SSLError"

(***************************************************************************)
(* The state machine                                                       *)
(***************************************************************************)
TlsArgs ==
    { [key_file |-> None, cert_file |-> None, ca_certs |-> None, validate_cert_hostname |-> TRUE],
      [key_file |-> "key.pem", cert_file |-> "cert.pem", ca_certs |-> "ca.pem", validate_cert_hostname |-> TRUE],
      [key_file |-> "key.pem", cert_file |-> "cert.pem", ca_certs |-> "ca.pem", validate_cert_hostname |-> FALSE] }

\* the arguments of the ServerProxy constructor, for the uris in uris
ArgsFor(uris) ==
    { [uri |-> u,
       key_file |-> tls.key_file, cert_file |-> tls.cert_file, ca_certs |-> tls.ca_certs,
       validate_cert_hostname |-> tls.validate_cert_hostname,
       extra_headers |-> hd, timeout |-> to, pool_connections |-> pc] :
      u \in uris, tls \in TlsArgs, pc \in BOOLEAN,
      to \in {None, "5"}, hd \in {EmptyDict, [k \in {"CONTENT-TYPE"} |-> "text/plain"]} }

HttpUri == UriOf(<<"http">>, <<>>, HostA, <<>>, Handler, <<>>)
HttpsUri == UriOf(<<"https">>, <<>>, HostA, <<>>, Handler, <<>>)

\* the arguments of the clients that make calls
ProxyArgs ==
    { a \in ArgsFor({HttpUri, HttpsUri}) :
        /\ a.uri = HttpUri => a.ca_certs = None
        /\ (a.timeout = None) = (a.extra_headers = EmptyDict) }

\* transports constructed directly and sharing the thread's pool
DirectTransports ==
    { NewTransport("TLSConnectionPoolTransport", None, None, None, TRUE, None),
      NewTransport("TLSConnectionPoolSafeTransport", "key.pem", "cert.pem", "ca.pem", TRUE, None) }

\* the arguments of a call: positional, named, both
CallArgs ==
    { [args |-> <<1>>, kwargs |-> EmptyDict],
      [args |-> <<>>, kwargs |-> [k \in {"k"} |-> 1]],
      [args |-> <<1>>, kwargs |-> [k \in {"k"} |-> 1]] }

NoData == [id |-> 0, method |-> None, params |-> Params(<<>>, EmptyDict)]

NoLast ==
    [op |-> "idle", ctx |-> None, tr |-> [class |-> None], host |-> <<>>, io |-> IoOk,
     args |-> <<>>, kwargs |-> EmptyDict, data |-> NoData, headers |-> EmptyDict,
     exc |-> NoExc, cause |-> NoExc, conn |-> NoConn, before |-> NoConn,
     created |-> FALSE, posts |-> 0, response |-> NoResponse, result |-> None,
     steps |-> <<>>]

\* nothing created, nothing deleted; no request in the middle
NoStats == [c \in Contexts |-> [h \in Hosts |-> [created |-> 0, evicted |-> 0]]]
NoFlight == [stage |-> "idle", tr |-> [class |-> None], host |-> <<>>, conn |-> NoConn,
             created |-> FALSE]
Idle == [c \in Contexts |-> NoFlight]

\* the counts of a host after a request on transport tr that ended as t: a
\* pooled connect that made a connection, a handle_connection_error that
\* deleted the entry
Count(st, tr, host, t) ==
    [created |-> st.created + (IF tr.class \in PooledClasses /\ t.created THEN 1 ELSE 0),
     evicted |-> st.evicted + (IF /\ tr.class \in PooledClasses
                                  /\ t.cause # NoExc /\ IsTransportException(t.cause)
                                  /\ t.connections[host] = NoConn
                               THEN 1 ELSE 0)]

ClientInit ==
    /\ \E a \in ProxyArgs :
          /\ ctor = a
          /\ proxy = ServerProxyInit(a).proxy
    /\ pool = [c \in Contexts |-> [h \in Hosts |-> NoConn]]
    /\ nconn = 0
    /\ nreq = 0
    /\ envelopes = <<>>
    /\ failed = {}
    /\ last = NoLast
    /\ stats = NoStats
    /\ inflight = Idle

Init ==
    /\ ClientInit
    /\ vcert = DefaultCert
    /\ vhostname = HostA
    /\ vdone = FALSE
    /\ vresult = FALSE

\* A mutation of BothGiven: no call is rejected.
BothGivenNever(args, kwargs) == FALSE

\* _Method.__call__: if args and kwargs
BothGiven(args, kwargs) == args # <<>> /\ kwargs # EmptyDict

\* proxy.ping(*args, **kwargs) in thread ctx: _Method.__call__
Call(ctx, args, kwargs, io) ==
    /\ last = NoLast
    /\ UNCHANGED <<vcert, vhostname, vdone, vresult, ctor, inflight>>
    /\ IF BothGiven(args, kwargs)
       THEN /\ last' = [NoLast EXCEPT !.op = "call", !.ctx = ctx, !.tr = proxy.transport,
                                      !.host = proxy.host, !.args = args, !.kwargs = kwargs,
                                      !.exc = Exc("JsonRpcError",
                                                  <<"JSON-RPC 2.0 spec does not allow both positional and keyword arguments.">>,
                                                  EmptyDict)]
            /\ io = IoOk
            /\ UNCHANGED <<proxy, pool, nconn, nreq, envelopes, failed, stats>>
       ELSE /\ nreq < MaxRequests
            /\ Possible(io, proxy.transport, pool[ThreadLocal(ctx)], proxy.host)
            /\ \E r \in {ProxyRequest(proxy, pool[ThreadLocal(ctx)], "ping",
                                    Params(args, kwargs), io, nconn + 1)} :
                /\ TRUE
                /\ proxy' = r.proxy
                /\ pool' = [pool EXCEPT ![ThreadLocal(ctx)] = r.t.connections]
                /\ stats' = [stats EXCEPT ![ThreadLocal(ctx)][proxy.host] =
                                Count(@, proxy.transport, proxy.host, r.t)]
                /\ nconn' = IF r.t.created THEN nconn + 1 ELSE nconn
                /\ nreq' = nreq + 1
                /\ envelopes' = Append(envelopes, r.data.id)
                /\ failed' = IF r.t.cause # NoExc
                              THEN failed \cup {[id |-> r.t.conn.id, ctx |-> ctx, host |-> proxy.host,
                                            cause |-> r.t.cause.type]}
                              ELSE failed
                /\ last' = [op |-> "call", ctx |-> ctx, tr |-> proxy.transport,
                            host |-> proxy.host, io |-> io, args |-> args, kwargs |-> kwargs,
                            data |-> r.data, headers |-> r.t.headers,
                            exc |-> r.exc, cause |-> r.t.cause,
                            conn |-> r.t.conn, before |-> pool[ThreadLocal(ctx)][proxy.host],
                            created |-> r.t.created, posts |-> r.t.posts,
                            response |-> r.t.response, result |-> r.result,
                            steps |-> r.steps]

\* tr.request(host, handler, body) in thread ctx on a transport of its own
Request(ctx, tr, host, body, io) ==
    /\ last = NoLast
    /\ nreq < MaxRequests
    /\ Possible(io, tr, pool[ThreadLocal(ctx)], host)
    /\ \E t \in {TransportRequest(tr, pool[ThreadLocal(ctx)], host, Handler, body, EmptyDict,
                                io, nconn + 1)} :
        /\ TRUE
        /\ pool' = [pool EXCEPT ![ThreadLocal(ctx)] = t.connections]
        /\ stats' = [stats EXCEPT ![ThreadLocal(ctx)][host] = Count(@, tr, host, t)]
        /\ nconn' = IF t.created THEN nconn + 1 ELSE nconn
        /\ nreq' = nreq + 1
        /\ failed' = IF t.cause # NoExc
                      THEN failed \cup {[id |-> t.conn.id, ctx |-> ctx, host |-> host,
                                    cause |-> t.cause.type]}
                      ELSE failed
        /\ last' = [op |-> "request", ctx |-> ctx, tr |-> tr, host |-> host, io |-> io,
                    args |-> <<>>, kwargs |-> EmptyDict, data |-> NoData,
                    headers |-> t.headers, exc |-> t.exc, cause |-> t.cause, conn |-> t.conn,
                    before |-> pool[ThreadLocal(ctx)][host], created |-> t.created, posts |-> t.posts,
                    response |-> t.response, result |-> None,
                    steps |-> <<>>]
        /\ UNCHANGED <<proxy, envelopes, vcert, vhostname, vdone, vresult, ctor, inflight>>

\* the caller has taken the result or the exception of the operation that
\* ended and goes on
Return ==
    /\ last # NoLast
    /\ last' = NoLast
    /\ UNCHANGED <<proxy, pool, nconn, nreq, envelopes, failed, vcert, vhostname, vdone, vresult,
                   ctor, stats, inflight>>

Next ==
    \/ /\ last = NoLast
       /\ \E ctx \in Contexts, a \in CallArgs, io \in Scenarios :
             Call(ctx, a.args, a.kwargs, io)
    \/ /\ last = NoLast
       /\ \E ctx \in Contexts, tr \in DirectTransports, host \in Hosts,
             body \in {NoBody}, io \in TransportScenarios :
             Request(ctx, tr, host, body, io)
    \/ Return

Spec == Init /\ [][Next]_vars

(***************************************************************************)
(* Hostname validation on its own: a certificate and a hostname are drawn, *)
(* _ValidateCertificateHostname is applied to them.                        *)
(***************************************************************************)
PatChars == {"a", "B", ".", "*"}
HostChars == {"A", "b", "."}
SeqsUpTo(S, n) == UNION { [1..k -> S] : k \in 0..n }
Patterns == SeqsUpTo(PatChars, MaxPatLen)
Hostnames == SeqsUpTo(HostChars, MaxHostLen)

Rdn(key, value) == << <<key, value>> >>

\* the certificates built around the glob p for a connection to h
CertsFor(p, h) ==
    { [hasSAN |-> TRUE, subjectAltName |-> << <<"DNS", p>> >>,
       subject |-> << Rdn("commonName", h) >>],
      [hasSAN |-> TRUE, subjectAltName |-> << <<"dns", p>> >>, subject |-> <<>>],
      [hasSAN |-> TRUE, subjectAltName |-> << <<"IP Address", p>> >>,
       subject |-> << Rdn("commonName", h) >>],
      [hasSAN |-> TRUE, subjectAltName |-> << <<"IP Address", h>>, <<"DNS", p>> >>,
       subject |-> <<>>],
      [hasSAN |-> TRUE, subjectAltName |-> << <<"DNS", p>>, <<"DNS", h>> >>,
       subject |-> <<>>],
      [hasSAN |-> TRUE, subjectAltName |-> <<>>, subject |-> << Rdn("commonName", p) >>],
      [hasSAN |-> FALSE, subjectAltName |-> <<>>, subject |-> << Rdn("commonName", p) >>],
      [hasSAN |-> FALSE, subjectAltName |-> <<>>,
       subject |-> << Rdn("organizationName", h), Rdn("CommonName", p) >>],
      [hasSAN |-> FALSE, subjectAltName |-> <<>>,
       subject |-> << << <<"organizationName", h>>, <<"commonName", p>> >> >>],
      [hasSAN |-> FALSE, subjectAltName |-> <<>>, subject |-> <<>>] }

CertInit ==
    /\ \E a \in ProxyArgs :
          /\ a.uri = HttpUri /\ ~a.pool_connections /\ a.timeout = None
          /\ ctor = a
          /\ proxy = ServerProxyInit(a).proxy
    /\ pool = [c \in Contexts |-> [h \in Hosts |-> NoConn]]
    /\ nconn = 0
    /\ nreq = 0
    /\ envelopes = <<>>
    /\ failed = {}
    /\ last = NoLast
    /\ stats = NoStats
    /\ inflight = Idle
    /\ \E p \in Patterns, h \in Hostnames :
          /\ vhostname = h
          /\ vcert \in CertsFor(p, h)
    /\ vdone = FALSE
    /\ vresult = FALSE

\* conn._ValidateCertificateHostname(vcert, vhostname)
ValidateHostname ==
    /\ ~vdone
    /\ vresult' = ValidateCertificateHostname(vcert, vhostname)
    /\ vdone' = TRUE
    /\ UNCHANGED <<proxy, pool, nconn, nreq, envelopes, failed, last, vcert, vhostname, ctor,
                   stats, inflight>>

CertNext == ValidateHostname

SpecCert == CertInit /\ [][CertNext]_vars

(***************************************************************************)
(* Construction on its own: the constructor's arguments are drawn,         *)
(* ServerProxy(uri, ...) is applied to them.                               *)
(***************************************************************************)
\* uris with and without credentials, port, path and query, of supported
\* and unsupported schemes, and one without a scheme
Uris ==
    { UriOf(sch, ui, h, port, path, query) :
        sch \in {<<"http">>, <<"https">>, <<"HTTP">>, <<"ftp">>, <<"gopher">>},
        ui \in {<<>>, <<"u", ":", "p", "@">>, <<"u", "@">>},
        h \in {HostA, <<"A", ".", "a">>},
        port \in {<<>>, <<":", "80">>},
        path \in {<<>>, Handler},
        query \in {<<>>, <<"?", "q">>} }
    \cup { HostA \o Handler }

CtorInit ==
    /\ ctor \in ArgsFor(Uris)
    /\ proxy = NoProxy
    /\ pool = [c \in Contexts |-> [h \in Hosts |-> NoConn]]
    /\ nconn = 0
    /\ nreq = 0
    /\ envelopes = <<>>
    /\ failed = {}
    /\ last = NoLast
    /\ stats = NoStats
    /\ inflight = Idle
    /\ vcert = DefaultCert
    /\ vhostname = HostA
    /\ vdone = FALSE
    /\ vresult = FALSE

\* ServerProxy(**ctor)
Construct ==
    /\ last = NoLast
    /\ proxy = NoProxy
    /\ \E r \in {ServerProxyInit(ctor)} :
          /\ proxy' = r.proxy
          /\ last' = [NoLast EXCEPT !.op = "init", !.exc = r.exc,
                                    !.tr = IF r.exc = NoExc THEN r.proxy.transport ELSE @,
                                    !.host = IF r.exc = NoExc THEN r.proxy.host ELSE @]
    /\ UNCHANGED <<pool, nconn, nreq, envelopes, failed, vcert, vhostname, vdone, vresult, ctor,
                   stats, inflight>>

CtorNext == Construct

SpecCtor == CtorInit /\ [][CtorNext]_vars

(***************************************************************************)
(* Two threads use pooled transports at the same time: a thread may be     *)
(* between self.connect(host) and the exchange on the connection while the *)
(* other thread takes its steps.                                           *)
(***************************************************************************)
\* the exchanges of the interleaved requests
ThreadScenarios == { io \in TransportScenarios : io.peercert = DefaultCert }

ThreadsInit ==
    /\ \E a \in ProxyArgs :
          /\ a.pool_connections
          /\ ctor = a
          /\ proxy = ServerProxyInit(a).proxy
    /\ pool = [c \in Contexts |-> [h \in Hosts |-> NoConn]]
    /\ nconn = 0
    /\ nreq = 0
    /\ envelopes = <<>>
    /\ failed = {}
    /\ last = NoLast
    /\ stats = NoStats
    /\ inflight = Idle
    /\ vcert = DefaultCert
    /\ vhostname = HostA
    /\ vdone = FALSE
    /\ vresult = FALSE

\* Transport.request in thread ctx as far as conn = self.connect(host)
Acquire(ctx, tr, host) ==
    /\ inflight[ctx].stage = "idle"
    /\ nreq < MaxThreadRequests
    /\ \E c \in {Connect(tr, pool[ThreadLocal(ctx)], host, nconn + 1)} :
          /\ pool' = [pool EXCEPT ![ThreadLocal(ctx)] = c.connections]
          /\ nconn' = IF c.created THEN nconn + 1 ELSE nconn
          /\ stats' = [stats EXCEPT ![ThreadLocal(ctx)][host].created =
                          IF c.created THEN @ + 1 ELSE @]
          /\ inflight' = [inflight EXCEPT ![ctx] =
                            [stage |-> "connected", tr |-> tr, host |-> host,
                             conn |-> c.conn, created |-> c.created]]
    /\ nreq' = nreq + 1
    /\ UNCHANGED <<proxy, envelopes, failed, last, vcert, vhostname, vdone, vresult, ctor>>

\* the rest of Transport.request in thread ctx: the headers, the exchange on
\* the connection, the status check, the handling of a connection error
Exchange(ctx, io) ==
    /\ inflight[ctx].stage = "connected"
    /\ Possible(io, inflight[ctx].tr, pool[ThreadLocal(ctx)], inflight[ctx].host)
    /\ \E x \in {ConnExchange(inflight[ctx].conn, io)} :
       \E t \in {TransportRespond(inflight[ctx].tr,
                                  [connections |-> pool[ThreadLocal(ctx)],
                                   conn |-> inflight[ctx].conn, created |-> FALSE],
                                  AddHeaders(inflight[ctx].tr, EmptyDict, NoBody),
                                  x, inflight[ctx].host, Handler)} :
          /\ pool' = [pool EXCEPT ![ThreadLocal(ctx)] = t.connections]
          /\ stats' = [stats EXCEPT ![ThreadLocal(ctx)][inflight[ctx].host] =
                          Count(@, inflight[ctx].tr, inflight[ctx].host, t)]
          /\ failed' = IF t.cause # NoExc
                       THEN failed \cup {[id |-> t.conn.id, ctx |-> ctx,
                                          host |-> inflight[ctx].host,
                                          cause |-> t.cause.type]}
                       ELSE failed
    /\ inflight' = [inflight EXCEPT ![ctx] = NoFlight]
    /\ UNCHANGED <<proxy, nconn, nreq, envelopes, last, vcert, vhostname, vdone, vresult, ctor>>

ThreadsNext ==
    \/ \E ctx \in Contexts, tr \in {proxy.transport} \cup DirectTransports :
          Acquire(ctx, tr, proxy.host)
    \/ \E ctx \in Contexts, io \in ThreadScenarios : Exchange(ctx, io)

SpecThreads == ThreadsInit /\ [][ThreadsNext]_vars

(***************************************************************************)
(* Calls of clients with and without CookieKeeperMixin: the hooks of       *)
(* _request                                                                *)
(***************************************************************************)
\* the arguments of these clients: http and https, pooled or not
HookArgs ==
    { a \in ProxyArgs : a.key_file = None /\ a.timeout = None }

HooksInit ==
    /\ \E a \in HookArgs :
          /\ ctor = a
          /\ \/ proxy = ServerProxyInit(a).proxy
             \/ \E rc \in {EmptyDict, [k \in {"sid"} |-> "1"]}, auto \in BOOLEAN :
                   proxy = CookieAwareServerProxy(a, rc, auto).proxy
    /\ pool = [c \in Contexts |-> [h \in Hosts |-> NoConn]]
    /\ nconn = 0
    /\ nreq = 0
    /\ envelopes = <<>>
    /\ failed = {}
    /\ last = NoLast
    /\ stats = NoStats
    /\ inflight = Idle
    /\ vcert = DefaultCert
    /\ vhostname = HostA
    /\ vdone = FALSE
    /\ vresult = FALSE

HooksNext ==
    \/ /\ last = NoLast
       /\ \E ctx \in Contexts, a \in CallArgs, io \in Scenarios :
             Call(ctx, a.args, a.kwargs, io)
    \/ Return

SpecHooks == HooksInit /\ [][HooksNext]_vars

(***************************************************************************)
(* Properties                                                              *)
(***************************************************************************)
Ended == last.op # "idle"
Pooled == last.tr.class \in PooledClasses
FailedIds == { f.id : f \in failed }
\* the status line of a response was read in the operation that ended
StatusRead == Ended /\ last.posts = 1 /\ last.io.respExc = None
\* the operation that ended opened a TLS socket and finished the handshake
Handshake ==
    /\ Ended /\ last.conn # NoConn
    /\ last.conn.class = "CertValidatingHTTPSConnection"
    /\ last.created /\ last.io.connect = "ok"
\* the client read and decoded the body of a 200 response
Decoded ==
    /\ last.op = "call" /\ last.response.status = 200 /\ last.io.readExc = None
    /\ last.io.payload.json # "invalid"

\* C1: on a pooled transport a request that fails with a socket or HTTP
\* framing error leaves no entry for its host in the calling thread's pool;
\* no pool ever holds a connection an exchange has failed on; and a request
\* reuses a connection only if it is the one in the pool, so the request
\* that follows a failure works on a new connection object.
C1_FailedConnectionEvicted ==
    /\ Ended /\ Pooled /\ last.cause # NoExc =>
          /\ last.exc.type = "ConnectionError"
          /\ pool[last.ctx][last.host] = NoConn
    /\ \A c \in Contexts, h \in Hosts : pool[c][h].id \notin FailedIds
    /\ Ended /\ last.conn # NoConn =>
          IF Pooled /\ last.before # NoConn
          THEN ~last.created /\ last.conn.id = last.before.id
          ELSE last.created /\ last.conn.id = nconn
               /\ (last.cause = NoExc => last.conn.id \notin FailedIds)

\* a request on a new connection to the host, in the thread, of a failed one
C1_Witness ==
    /\ Ended /\ Pooled /\ last.created /\ last.exc = NoExc
    /\ \E f \in failed : f.ctx = last.ctx /\ f.host = last.host /\ f.id < last.conn.id

\* C2: a response whose status is not 200 ends the request with a
\* ProtocolError holding host + handler, the status, the reason and the
\* headers sent; on a pooled transport the connection stays in the pool and
\* a later request to the host gets that same connection object.
C2_StatusErrorKeepsConnection ==
    /\ StatusRead /\ last.io.status # 200 =>
          /\ last.exc.type = "ProtocolError"
          /\ ~IsSubclass(last.exc.type, "ConnectionError")
          /\ last.exc.attrs = [url |-> last.host \o Handler, errcode |-> last.io.status,
                               errmsg |-> last.io.reason, headers |-> last.headers]
          /\ Pooled => pool[last.ctx][last.host] = last.conn /\ last.conn # NoConn
    /\ Ended /\ Pooled /\ last.before # NoConn =>
          ~last.created /\ last.conn.id = last.before.id

\* a pooled connection taken from the pool answers with a status other than 200
C2_Witness ==
    /\ Ended /\ Pooled /\ last.exc.type = "ProtocolError" /\ last.exc.attrs.errcode = 404
    /\ ~last.created /\ pool[last.ctx][last.host] = last.conn

\* C3: every connection a client for an https endpoint with a CA bundle
\* uses requires the peer certificate, and holds the client's key, certificate,
\* CA bundle and hostname toggle, pooled or not.
C3_TlsConfigReachesConnection ==
    last.op = "call" /\ last.conn # NoConn /\ proxy.type = "https" /\ proxy.ca_certs # None =>
        /\ last.conn.class = "CertValidatingHTTPSConnection"
        /\ last.conn.cert_reqs = "CERT_REQUIRED"
        /\ last.conn.ca_certs = proxy.ca_certs
        /\ last.conn.key_file = proxy.key_file
        /\ last.conn.cert_file = proxy.cert_file
        /\ last.conn.validate_cert_hostname = proxy.validate_cert_hostname

\* C4: a connection that requires the peer certificate and checks the
\* hostname fails to connect with InvalidCertificateException(host, cert,
\* 'hostname mismatch') when the certificate does not match, and no request
\* is written on it; without a CA bundle the check is skipped; no request is
\* ever written on a socket whose certificate failed the check.
C4_HostnameMismatchFailsConnect ==
    /\ Handshake =>
          IF /\ last.conn.cert_reqs = "CERT_REQUIRED" /\ last.conn.validate_cert_hostname
             /\ ~ValidateCertificateHostname(last.io.peercert, last.conn.host)
          THEN /\ last.cause.type = "InvalidCertificateException"
               /\ last.cause.attrs = [host |-> last.conn.host, cert |-> last.io.peercert,
                                      reason |-> "hostname mismatch"]
               /\ last.posts = 0 /\ last.conn.written = 0
          ELSE last.cause.type # "InvalidCertificateException"
    /\ Ended /\ last.conn # NoConn /\ last.conn.ca_certs = None =>
          last.cause.type # "InvalidCertificateException"
    /\ \A c \in Contexts, h \in Hosts :
          LET conn == pool[c][h]
          IN  /\ conn # NoConn /\ conn.sock # None
              /\ conn.cert_reqs = "CERT_REQUIRED" /\ conn.validate_cert_hostname
              => ValidateCertificateHostname(conn.peercert, conn.host)

\* the hostname check has just rejected the peer certificate
C4_Witness ==
    /\ Handshake /\ last.cause.type = "InvalidCertificateException"
    /\ last.conn.sock # None /\ last.conn.written = 0

\* C5: a hostname rejection during a request reaches the caller as an
\* InvalidCertificateException that is a ConnectionError and holds host,
\* certificate and reason.
C5_InvalidCertificateReachesCaller ==
    Ended /\ last.cause.type = "InvalidCertificateException" =>
        /\ last.exc.type = "InvalidCertificateException"
        /\ IsSubclass(last.exc.type, "ConnectionError")
        /\ last.exc.attrs = last.cause.attrs

\* C6: a socket or HTTP framing error at any step of a call (opening the
\* connection, sending, reading the status line, reading the body) reaches
\* the caller as ConnectionError and, on a pooled transport, removes the
\* host's connection from the pool.
C6_EveryIoFailureIsConnectionError ==
    /\ Ended /\ last.conn # NoConn
    /\ \/ last.cause # NoExc
       \/ last.op = "call" /\ last.response.status = 200 /\ last.io.readExc # None
    => /\ last.exc.type = "ConnectionError"
       /\ Pooled => pool[last.ctx][last.host] = NoConn

\* the same letter in either case
SameLetter(x, y) ==
    \/ x = y
    \/ {x, y} \in {{"a", "A"}, {"b", "B"}}

\* the glob pat matches the whole of host: every character but * stands for
\* itself in either case, a * for a run of characters without a dot
RECURSIVE GlobMatches(_, _)
GlobMatches(pat, host) ==
    IF pat = <<>> THEN host = <<>>
    ELSE LET n == Len(pat)
             m == Len(host)
         IN  IF pat[n] = "*"
             THEN \E k \in 0..m :
                     /\ \A j \in (m - k + 1)..m : host[j] # "."
                     /\ GlobMatches(SubSeq(pat, 1, n - 1), SubSeq(host, 1, m - k))
             ELSE /\ m > 0
                  /\ SameLetter(pat[n], host[m])
                  /\ GlobMatches(SubSeq(pat, 1, n - 1), SubSeq(host, 1, m - 1))

\* the globs of the DNS entries of the certificate's subjectAltName
DnsGlobs(cert) ==
    { cert.subjectAltName[i][2] : i \in { j \in 1..Len(cert.subjectAltName) :
                                           cert.subjectAltName[j][1] \in {"DNS", "dns"} } }
\* the globs of the certificate's common names
CnGlobs(cert) ==
    { cert.subject[i][1][2] : i \in { j \in 1..Len(cert.subject) :
                                       cert.subject[j][1][1] \in {"commonName", "CommonName"} } }

\* C7: for a certificate with DNS entries in its subjectAltName the validator
\* accepts a hostname exactly if one of these entries matches it, a * standing
\* for a run without a dot: a matching common name does not make up for it.
C7_SanDecidesOverCommonName ==
    vdone /\ vcert.hasSAN /\ DnsGlobs(vcert) # {} =>
        (vresult <=> \E g \in DnsGlobs(vcert) : GlobMatches(g, vhostname))

\* a wildcard DNS entry does not match, the common name does: rejected
C7_Witness ==
    /\ vdone /\ vcert.hasSAN /\ ~vresult
    /\ \E g \in DnsGlobs(vcert) : \E i \in 1..Len(g) : g[i] = "*"
    /\ \A g \in DnsGlobs(vcert) : ~GlobMatches(g, vhostname)
    /\ \E g \in CnGlobs(vcert) : GlobMatches(g, vhostname)

\* C8: the envelopes a client builds have the ids 1, 2, ..., N, the id of the
\* client is the number of envelopes built, whatever the calls ended with.
C8_EnvelopeIdsCount ==
    /\ \A i \in 1..Len(envelopes) : envelopes[i] = i
    /\ proxy.id = Len(envelopes)
    /\ last.op = "call" /\ ~BothGiven(last.args, last.kwargs) => last.data.id = proxy.id

\* the second envelope is built after a call that failed
C8_Witness ==
    /\ last.op = "call" /\ Len(envelopes) = 2 /\ last.data.id = 2
    /\ nreq = 2 /\ failed # {}

\* C9: a call with positional and named arguments ends with JsonRpcError and
\* changes neither the client (its id included), nor the pool, nor the
\* number of connections or requests: nothing is acquired, nothing is sent.
C9_BothGivenRejectedBeforeIo ==
    [][ last' # NoLast /\ last'.op = "call" /\ last'.args # <<>> /\ last'.kwargs # EmptyDict =>
          /\ last'.exc.type = "JsonRpcError"
          /\ last'.conn = NoConn /\ ~last'.created /\ last'.posts = 0
          /\ UNCHANGED <<proxy, pool, nconn, nreq, envelopes, failed, ctor, stats>> ]_vars

\* a call with both is rejected on a client that has made a call before
C9_Witness ==
    /\ last.op = "call" /\ last.exc.type = "JsonRpcError"
    /\ last.args # <<>> /\ last.kwargs # EmptyDict /\ proxy.id = 1

\* C10: a decoded response that is not null and has neither a result nor a
\* non-null error ends the call with ResponseError whose payload preview has at
\* most 256 characters.
C10_MalformedPreviewBounded ==
    /\ Decoded /\ last.io.payload.json # "null"
    /\ "result" \notin last.io.payload.keys
    /\ ~("error" \in last.io.payload.keys /\ last.io.payload.error.kind # "null")
    => /\ last.exc.type = "ResponseError"
       /\ last.exc.args[1].preview <= PreviewLimit

\* the decoded body is an object with an error object that has a code and
\* a message
RemoteError ==
    /\ Decoded /\ last.io.payload.json = "object"
    /\ "error" \in last.io.payload.keys
    /\ last.io.payload.error.kind = "object"
    /\ {"code", "message"} \subseteq last.io.payload.error.keys

\* C11: a response whose error is an object with code and message ends the
\* call with a Fault whose errcode and errmsg are the remote code and message;
\* Fault is no JsonRpcError, and the exception of such a call is none either.
C11_ErrorObjectRaisesFault ==
    /\ ~IsSubclass("Fault", "JsonRpcError")
    /\ RemoteError =>
          /\ last.exc.type = "Fault"
          /\ last.exc.attrs = [errcode |-> last.io.payload.error.code,
                               errmsg |-> last.io.payload.error.message]
          /\ last.exc.args = <<last.io.payload.error.message>>
          /\ ~IsSubclass(last.exc.type, "JsonRpcError")
          /\ last.result = None

\* a call has ended with the Fault of a response that has an error and no result
C11_Witness ==
    /\ RemoteError /\ "result" \notin last.io.payload.keys
    /\ last.exc.type = "Fault" /\ last.exc.attrs.errcode = ErrorObject.code

\* C12: a 200 response whose body is the JSON null ends the call without an
\* exception and with the value None.
C12_NullBodyReturnsNone ==
    Decoded /\ last.io.payload.json = "null" =>
        /\ last.exc = NoExc
        /\ last.result = None

\* a call has returned on a null body
C12_Witness ==
    /\ Decoded /\ last.io.payload.json = "null" /\ last.exc = NoExc
    /\ last.posts = 1 /\ last.data.id = proxy.id

\* C13: a response with a result and an error that is not null ends the
\* call with ResponseError: no Fault, no returned result.
C13_ResultAndErrorIsResponseError ==
    /\ Decoded /\ last.io.payload.json = "object"
    /\ {"result", "error"} \subseteq last.io.payload.keys
    /\ last.io.payload.error.kind # "null"
    => last.exc.type = "ResponseError"

\* the scheme of a uri, in lower case: the word before "://", if there is one
SchemeOfUri(uri) == IF Len(uri) >= 2 /\ uri[2] = ":" THEN Lower(uri[1]) ELSE ""

\* C14: the constructor ends with JsonRpcError for a uri whose scheme is
\* neither http nor https, and then there is no client and no transport; for
\* http and https it succeeds and the client's type is the scheme.
C14_UnsupportedSchemeRejected ==
    last.op = "init" =>
        IF SchemeOfUri(ctor.uri) \in {"http", "https"}
        THEN /\ last.exc = NoExc
             /\ proxy # NoProxy
             /\ proxy.type = SchemeOfUri(ctor.uri)
        ELSE /\ last.exc.type = "JsonRpcError"
             /\ IsSubclass(last.exc.type, "JsonRpcError")
             /\ proxy = NoProxy
             /\ last.tr = NoLast.tr

\* the constructor has rejected an ftp uri given together with pooling
C14_Witness ==
    /\ last.op = "init" /\ last.exc.type = "JsonRpcError"
    /\ ctor.uri[1] = "ftp" /\ ctor.pool_connections /\ proxy = NoProxy

\* C15: a pooled connect hands out the connection of the calling thread's
\* pool if there is one and makes none; otherwise it makes one connection and
\* puts it in the pool. So for every thread and host the connections made are
\* as many as the entries deleted, plus one if the host has an entry.
C15_PooledConnectCachesOnce ==
    /\ \A c \in Contexts, h \in Hosts :
          stats[c][h].created =
              stats[c][h].evicted + (IF pool[c][h] # NoConn THEN 1 ELSE 0)
    /\ Ended /\ Pooled /\ last.conn # NoConn =>
          /\ IF last.before # NoConn
             THEN ~last.created /\ last.conn.id = last.before.id
             ELSE last.created /\ last.conn.id = nconn
          /\ last.cause = NoExc =>
                pool[last.ctx][last.host] # NoConn /\ pool[last.ctx][last.host].id = last.conn.id

\* a host's second connection is in the pool after the first was deleted
C15_Witness ==
    \E c \in Contexts, h \in Hosts :
        /\ stats[c][h].created = 2 /\ stats[c][h].evicted = 1
        /\ pool[c][h] # NoConn /\ pool[c][h].id = 2

\* the threads in the middle of a request on a pooled transport
Busy == { c \in Contexts : inflight[c].stage = "connected"
                           /\ inflight[c].tr.class \in PooledClasses }

\* C16: in every interleaving of the requests of two threads on pooled
\* transports to one host, two threads in the middle of a request hold
\* different connection objects, no connection object is in the pools of two
\* threads, the connection a thread works on stays in that thread's pool until
\* the thread itself is done with it, and a step of one thread leaves the
\* pool of the other thread as it was.
C16_ThreadsNeverShareConnection ==
    /\ [](/\ \A c1, c2 \in Busy : c1 # c2 => inflight[c1].conn.id # inflight[c2].conn.id
          /\ \A c1, c2 \in Contexts, h1, h2 \in Hosts :
                c1 # c2 /\ pool[c1][h1] # NoConn => pool[c1][h1].id # pool[c2][h2].id
          /\ \A c \in Busy : pool[c][inflight[c].host].id = inflight[c].conn.id)
    /\ [][\A c \in Contexts : inflight'[c] = inflight[c] => pool'[c] = pool[c]]_vars

\* both threads are in the middle of a request to the same host on the same
\* transport, after a connection of one of them was deleted from its pool
C16_Witness ==
    /\ Busy = Contexts
    /\ inflight["t1"].tr = inflight["t2"].tr
    /\ inflight["t1"].host = inflight["t2"].host
    /\ \E c \in Contexts : stats[c][inflight[c].host].evicted = 1

\* every common name of the certificate's subject, whatever its place in its
\* relative distinguished name
SubjectCommonNames(cert) ==
    UNION { { cert.subject[i][k][2] :
                k \in { j \in 1..Len(cert.subject[i]) :
                          Lower(cert.subject[i][j][1]) = "commonname" } } :
            i \in 1..Len(cert.subject) }

\* C17: for a certificate without subjectAltName the validator accepts a
\* hostname exactly if a common name of the subject matches it, letters
\* compared in either case: it accepts a common name equal to the hostname
\* and rejects when no common name matches, an empty subject included.
C17_CommonNameDecidesWithoutSan ==
    vdone /\ ~vcert.hasSAN =>
        (vresult <=> \E g \in SubjectCommonNames(vcert) : GlobMatches(g, vhostname))

\* the globs the validator tries for a certificate
Candidates(cert) == IF cert.hasSAN THEN DnsGlobs(cert) ELSE CnGlobs(cert)
\* how often the character c is in s
CountOf(s, c) == Cardinality({ i \in 1..Len(s) : s[i] = c })
\* the glob *.a
StarDotA == <<"*", ".", "a">>

\* C18: a glob matches the whole hostname and a * stands for characters of
\* one label: an accepted hostname has as many dots as the glob that matches
\* it, is at least as long as the glob without its stars, and begins and ends
\* with the glob's first and last character unless that is a *. The glob *.a
\* matches x.a for a label x and nothing else: neither a, nor a hostname with
\* a further dot.
C18_WildcardStaysInOneLabel ==
    vdone =>
        /\ vresult =>
              \E g \in Candidates(vcert) :
                 /\ CountOf(g, ".") = CountOf(vhostname, ".")
                 /\ Len(vhostname) >= Len(g) - CountOf(g, "*")
                 /\ g # <<>> /\ g[1] # "*" =>
                       vhostname # <<>> /\ SameLetter(g[1], vhostname[1])
                 /\ g # <<>> /\ g[Len(g)] # "*" =>
                       vhostname # <<>> /\ SameLetter(g[Len(g)], vhostname[Len(vhostname)])
        /\ Candidates(vcert) = {StarDotA} =>
              (vresult <=> /\ Len(vhostname) >= 2
                           /\ vhostname[Len(vhostname)] \in {"a", "A"}
                           /\ vhostname[Len(vhostname) - 1] = "."
                           /\ \A j \in 1..(Len(vhostname) - 2) : vhostname[j] # ".")

\* the validator has rejected a hostname for *.a in which the * would have to
\* stand for a dot
C18_Witness ==
    /\ vdone /\ ~vresult /\ Candidates(vcert) = {StarDotA}
    /\ vhostname = <<".", ".", "A">>

\* the keys of a dict that are a content type header, in any letter case
ContentTypeKeys(d) == { k \in DOMAIN d : Lower(k) = "content-type" }
\* the headers the caller gave: extra_headers for a call, none for a request
\* on a transport
CallerHeaders == IF last.op = "call" THEN ctor.extra_headers ELSE EmptyDict

\* C19: the headers of every request written hold User-Agent, the length of
\* this request's body as Content-Length (0 without a body), and one content
\* type: the caller's, under the caller's key and with the caller's value, if
\* the caller gave one in any letter case, else Content-Type:
\* application/json. This holds for the later calls of a client as well,
\* whose headers dict the earlier calls have filled.
C19_HeadersOfEveryRequest ==
    Ended /\ last.posts = 1 =>
        /\ "User-Agent" \in DOMAIN last.headers
        /\ last.headers["User-Agent"] = "JSON-RPC Client"
        /\ "Content-Length" \in DOMAIN last.headers
        /\ last.headers["Content-Length"] =
              IF last.op = "call" THEN JsonDumps(last.data).len ELSE 0
        /\ Cardinality(ContentTypeKeys(last.headers)) = 1
        /\ IF ContentTypeKeys(CallerHeaders) # {}
           THEN \A k \in ContentTypeKeys(CallerHeaders) :
                   k \in DOMAIN last.headers /\ last.headers[k] = CallerHeaders[k]
           ELSE /\ "Content-Type" \in DOMAIN last.headers
                /\ last.headers["Content-Type"] = "application/json"

\* the second call of a client that was given a content type has been written,
\* with named parameters
C19_Witness ==
    /\ last.op = "call" /\ last.posts = 1 /\ proxy.id = 2
    /\ ContentTypeKeys(CallerHeaders) = {"CONTENT-TYPE"}
    /\ last.kwargs # EmptyDict
    /\ last.headers["Content-Length"] = 47

\* C20: a call or a transport request makes at most one connection and
\* writes at most one request, on the connection it got, whatever it ends
\* with: the connection has one request more than before if one was written,
\* and transport requests are never fewer than the connections made. A call
\* that ends with ConnectionError, ProtocolError, ResponseError or Fault has
\* written its request at most once.
C20_NoRetry ==
    /\ nconn <= nreq
    /\ Len(envelopes) <= nreq
    /\ Ended => last.posts \in {0, 1}
    /\ Ended /\ last.conn # NoConn =>
          /\ last.conn.id <= nconn
          /\ last.conn.written =
                (IF last.created THEN 0 ELSE last.before.written) + last.posts
    /\ Ended /\ last.exc.type \in {"ConnectionError", "ProtocolError", "ResponseError", "Fault"}
          => last.posts <= 1 /\ last.conn.written <= nreq

\* a request written on a connection from the pool has ended with
\* ConnectionError: it was written once and the connection is gone
C20_Witness ==
    /\ Ended /\ Pooled /\ ~last.created /\ last.exc.type = "ConnectionError"
    /\ last.posts = 1 /\ last.conn.written = 2 /\ nreq = 2
    /\ pool[last.ctx][last.host] = NoConn

\* the path and the query of a uri as written after its authority: what is
\* left of the uri behind "scheme://netloc"
PathAndQuery(uri) ==
    LET u == Urlparse(uri)
    IN  u.path \o (IF u.query = <<>> THEN <<>> ELSE <<"?">> \o u.query)

\* C21: the handler of a client is the path of its uri together with the
\* query string, and holds nothing of the credentials.
C21_HandlerKeepsQuery ==
    last.op = "init" /\ last.exc = NoExc =>
        /\ proxy.handler = PathAndQuery(ctor.uri)
        /\ \A i \in 1..Len(proxy.handler) : proxy.handler[i] \notin {"u", "p", "@"}

\* the authority of a uri without its credentials: what stands between "//"
\* and the path, behind the last "@"
HostPort(uri) ==
    LET netloc == Urlparse(uri).netloc
    IN  Drop(netloc, RFind(netloc, "@"))

\* C22: the host of a client is the host of its uri with the port, if the
\* uri names one, and without the credentials; it is the host the transport
\* is asked for.
C22_HostKeepsPort ==
    last.op = "init" /\ last.exc = NoExc =>
        /\ SeqMap(Lower, proxy.host) = SeqMap(Lower, HostPort(ctor.uri))
        /\ \A i \in 1..Len(proxy.host) : proxy.host[i] \notin {"u", "p", "@"}
        /\ last.host = proxy.host

\* C23: after connect has failed with InvalidCertificateException the
\* connection holds no socket.
C23_FailedCheckClosesSocket ==
    Handshake /\ last.cause.type = "InvalidCertificateException" =>
        last.conn.sock = None

\* the connections whose hostname check has failed
UnvalidatedIds == { f.id : f \in { g \in failed : g.cause = "InvalidCertificateException" } }

\* C24: when the hostname check fails on a pooled secure transport the
\* connection is out of the thread's pool when the error reaches the caller,
\* and nothing was written on it; no pool ever holds a connection whose
\* check has failed, so none is handed out again; and the request that
\* follows to that host makes a new connection, whose handshake and check,
\* on a secure transport, are done again.
C24_UnvalidatedConnectionEvicted ==
    /\ Ended /\ Pooled /\ last.cause.type = "InvalidCertificateException" =>
          /\ last.tr.class \in SafeClasses
          /\ last.created /\ last.conn.id \in UnvalidatedIds
          /\ pool[last.ctx][last.host] = NoConn
          /\ last.posts = 0 /\ last.conn.written = 0
    /\ \A c \in Contexts, h \in Hosts : pool[c][h].id \notin UnvalidatedIds
    /\ Ended /\ Pooled /\ last.posts = 1 => last.conn.id \notin UnvalidatedIds
    /\ /\ Ended /\ Pooled /\ last.conn # NoConn
       /\ last.before = NoConn
       /\ \E f \in failed : /\ f.ctx = last.ctx /\ f.host = last.host
                            /\ f.id \in UnvalidatedIds /\ f.id # last.conn.id
       => /\ last.created /\ last.conn.id = nconn
          /\ last.conn.class = "CertValidatingHTTPSConnection"
                /\ last.conn.cert_reqs = "CERT_REQUIRED" /\ last.conn.validate_cert_hostname
                /\ last.io.connect = "ok"
             => IF ValidateCertificateHostname(last.io.peercert, last.conn.host)
                THEN last.cause.type # "InvalidCertificateException"
                ELSE last.cause.type = "InvalidCertificateException" /\ last.posts = 0

\* a pooled secure transport's request to a host whose check failed before
\* has made a second connection, and its check has passed
C24_Witness ==
    /\ Ended /\ last.tr.class = "TLSConnectionPoolSafeTransport"
    /\ last.created /\ last.conn.id = 2 /\ last.posts = 1 /\ last.exc = NoExc
    /\ last.conn.cert_reqs = "CERT_REQUIRED"
    /\ \E f \in failed : /\ f.ctx = last.ctx /\ f.host = last.host
                         /\ f.id = 1 /\ f.cause = "InvalidCertificateException"
    /\ pool[last.ctx][last.host].id = 2

\* C25: the connection a request works on was made by a connector of the
\* transport's kind: a secure transport's request goes over a TLS
\* connection, a plain transport's over a plain one.
C25_ConnectionOfTransportKind ==
    Ended /\ last.conn # NoConn =>
        (last.tr.class \in SafeClasses
            <=> last.conn.class = "CertValidatingHTTPSConnection")

\* the decoded value p is no JSON-RPC response: no object, an error object
\* without code or message, or an object without result whose error is
\* null or empty
NonConformant(p) ==
    \/ p.json \in {"number", "string", "array"}
    \/ p.json = "object" /\ "error" \in p.keys /\ p.error.kind = "object"
          /\ ~({"code", "message"} \subseteq p.error.keys)
    \/ p.json = "object" /\ "result" \notin p.keys
          /\ ("error" \in p.keys => p.error.kind \in {"null", "empty"})

\* C26: a call whose 200 response was read and parsed as JSON ends with a
\* result, a Fault or a ResponseError, and with ResponseError if the decoded
\* value is no JSON-RPC response.
C26_DecodedOutcomes ==
    Decoded =>
        /\ last.exc = NoExc \/ last.exc.type \in {"Fault", "ResponseError"}
        /\ NonConformant(last.io.payload) => last.exc.type = "ResponseError"

\* C27: a certificate whose subjectAltName holds no DNS entry is judged by
\* its common names: the validator accepts the hostname when one of them
\* matches it.
C27_SanWithoutDnsFallsBackToCommonName ==
    vdone /\ vcert.hasSAN /\ DnsGlobs(vcert) = {} =>
        ((\E g \in CnGlobs(vcert) : GlobMatches(g, vhostname)) => vresult)

\* the steps of a call that runs to its end, in the order of _request
CallSteps == <<"id", "prepare", "dumps", "exchange", "handle", "read", "loads">>

\* the cookies the prepare hook of client c puts in the Cookie header
CookiesToSend(c) ==
    IF ~IsCookieKeeper(c) THEN EmptyDict
    ELSE IF c.request_cookies # EmptyDict THEN c.request_cookies
    ELSE IF c.auto_add_cookies THEN c.response_cookies
    ELSE EmptyDict

\* C28: the steps of a call are begun in the order id, prepare hook,
\* serialization, exchange, handle-response hook, read, decode. The
\* handle-response hook runs once when the exchange gives a response, with
\* that response, and not at all when the transport raises ProtocolError or
\* ConnectionError; what the prepare hook puts in the headers is in the
\* headers of the request that is written.
C28_StepsInOrder ==
    [][ last.op = "idle" /\ last'.op = "call" /\ ~BothGiven(last'.args, last'.kwargs) =>
          /\ last'.steps = SubSeq(CallSteps, 1, Len(last'.steps))
          /\ Len(last'.steps) >= 4
          /\ last'.data.id = proxy.id + 1 /\ proxy'.id = last'.data.id
          /\ IF last'.exc.type \in {"ProtocolError", "ConnectionError"}
                \/ last'.response = NoResponse
             THEN /\ Len(last'.steps) = 4
                  /\ IsCookieKeeper(proxy) => proxy'.response_cookies = proxy.response_cookies
             ELSE /\ Len(last'.steps) >= 6
                  /\ last'.response.status = 200
                  /\ IsCookieKeeper(proxy) =>
                        proxy'.response_cookies =
                            IF last'.response.msg = <<>> THEN proxy.response_cookies
                            ELSE [k \in {"sid"} |-> "2"]
          /\ Len(last'.steps) = 7 <=> last'.response # NoResponse /\ last'.io.readExc = None
          /\ CookiesToSend(proxy) # EmptyDict /\ last'.posts = 1 =>
                /\ "Cookie" \in DOMAIN last'.headers
                /\ last'.headers["Cookie"] =
                      [name |-> "sid", value |-> CookiesToSend(proxy)["sid"]]
          /\ ~IsCookieKeeper(proxy) => "Cookie" \notin DOMAIN last'.headers
      ]_vars

\* a client that sends back the cookies it gets has made its second call: the
\* cookie of the first response was in the request, and all steps were done
C28_Witness ==
    /\ last.op = "call" /\ last.steps = CallSteps /\ proxy.id = 2
    /\ IsCookieKeeper(proxy) /\ proxy.auto_add_cookies /\ proxy.request_cookies = EmptyDict
    /\ last.posts = 1 /\ "Cookie" \in DOMAIN last.headers
    /\ last.headers["Cookie"] = [name |-> "sid", value |-> "2"]
    /\ proxy.response_cookies = [k \in {"sid"} |-> "2"]

\* C29: a connection made in a call of a client constructed with a timeout
\* has that timeout, whichever of the four transports the client has.
C29_TimeoutOfEveryConnection ==
    last.op = "call" /\ last.created /\ ctor.timeout # None =>
        /\ last.conn.timeout = ctor.timeout
        /\ last.conn.timeout # GLOBAL_DEFAULT_TIMEOUT

\* C30: the deletion in a pooled transport's handle_connection_error finds
\* its entry: a request that fails with a socket or HTTP framing error on a
\* pooled transport worked on the connection the pool held for the host, ends
\* with ConnectionError and never with a missing-key error, and leaves the
\* entry deleted; no host has more entries deleted than connections made.
C30_EvictionNeverFails ==
    /\ Ended /\ Pooled /\ last.cause # NoExc =>
          /\ last.exc.type # "KeyError"
          /\ IsSubclass(last.exc.type, "ConnectionError")
          /\ last.created \/ last.before.id = last.conn.id
          /\ pool[last.ctx][last.host] = NoConn
    /\ \A c \in Contexts, h \in Hosts :
          /\ stats[c][h].evicted <= stats[c][h].created
          /\ pool[c][h] = NoConn => stats[c][h].evicted = stats[c][h].created

\* a thread's pool had the entries of one host's first and second connection
\* deleted, one request after the other
C30_Witness ==
    /\ Ended /\ Pooled /\ last.exc.type = "ConnectionError"
    /\ stats[last.ctx][last.host].evicted = 2
    /\ \E f \in failed : f.id = 1 /\ f.ctx = last.ctx /\ f.host = last.host
    /\ last.conn.id = 2 /\ pool[last.ctx][last.host] = NoConn

====
